---- MODULE Spec2Model ----
(***************************************************************************)
(* The Intcode interpreter of day_05_intcode_io/intcode.rs as a state      *)
(* machine: one run of interpret(memory, answers), one action per arm of   *)
(* the match on the decoded opcode, plus the failing instruction fetch.    *)
(*                                                                         *)
(* Cells are i64 in the source.  TLC's integers are 32 bits wide, so the   *)
(* word is scaled down to WordBits bits (two's complement, like i64), and  *)
(* usize is the unsigned word of the same width (a 64-bit target).         *)
(* Memory is a sequence; the source's address a is position a + 1.         *)
(*                                                                         *)
(* The crossed wires of day_03_crossed_wires/mod.rs are a second state     *)
(* machine over variables of their own: EdgeSpec intersects two edges,     *)
(* CircuitSpec lays out two wires and searches their crossings.            *)
(***************************************************************************)
EXTENDS Integers, Sequences, FiniteSets, TLC

\* one run of interpret
VARIABLES memory, ip, answers, cursor, output, status, panic, program

\* day_03_crossed_wires/mod.rs: the two wires as written, the circuit laid
\* out from them, the results of crossings, get_closest_crossing and
\* get_first_crossing, and a pair of edges with the results of intersecting
\* them in both directions; phase is the position in that computation
VARIABLES phase, wires, circuit, found, closest, first, edges, hit

intcode == <<memory, ip, answers, cursor, output, status, panic, program>>
day_03 == <<phase, wires, circuit, found, closest, first, edges, hit>>
vars == <<intcode, day_03>>

---------------------------------------------------------------------------
(* Bounds of the model *)

WordBits == 15
MaxInputLen == 2
CompareRange == 20
CoordBits == 10
MaxMoves == 2

---------------------------------------------------------------------------
(* Machine integers *)

Modulus == 2 ^ WordBits
MaxInt == 2 ^ (WordBits - 1) - 1
MinInt == -(2 ^ (WordBits - 1))
Word == MinInt .. MaxInt

\* faulty Wrap: the mathematical result, of any size
Wrap_unbounded(v) == v

\* i64 arithmetic of a build without overflow checks: two's complement wrap
Wrap(v) == ((v - MinInt) % Modulus) + MinInt

\* faulty cast: the magnitude instead of the reinterpreted bits
AsUsize_abs(v) == IF v < 0 THEN -v ELSE v

\* `x as usize`: reinterpretation of the signed word as unsigned
AsUsize(v) == v % Modulus

\* `x as u8`: truncation to the low 8 bits
AsU8(v) == v % 256

\* Rust's `/` and `%` on i64 truncate towards zero (divisor positive here)
TruncDiv(a, b) == IF a >= 0 THEN a \div b ELSE -((-a) \div b)
TruncRem(a, b) == a - b * TruncDiv(a, b)

---------------------------------------------------------------------------
(* Instruction decoding *)

\* faulty ParameterType::from: every non-zero digit selects immediate mode
ParameterType_from_nonzero(digit) ==
  IF digit # 0 THEN "Immediate" ELSE "Position"

ParameterType_from(digit) == IF digit = 1 THEN "Immediate" ELSE "Position"

get_digits(n) ==
  << AsU8(TruncRem(TruncDiv(n, 10000), 10)),
     AsU8(TruncRem(TruncDiv(n, 1000), 10)),
     AsU8(TruncRem(TruncDiv(n, 100), 10)),
     AsU8(TruncRem(TruncDiv(n, 1), 100)) >>

parse_instruction(value) ==
  LET d == get_digits(value)
  IN  [ opcode |-> d[4],
        param1 |-> ParameterType_from(d[3]),
        param2 |-> ParameterType_from(d[2]),
        param3 |-> ParameterType_from(d[1]) ]

---------------------------------------------------------------------------
(* Addressing: slice indexing is bounds checked, an index >= len panics *)

NoFault == -1

\* the first index at which lookup panics, NoFault when it returns
lookup_fault(mem, address, parameter_type) ==
  IF address >= Len(mem) THEN address
  ELSE IF parameter_type = "Position" /\ AsUsize(mem[address + 1]) >= Len(mem)
       THEN AsUsize(mem[address + 1])
       ELSE NoFault

\* faulty lookup: the positional arm does not follow the pointer
lookup_direct(mem, address, parameter_type) == mem[address + 1]

lookup(mem, address, parameter_type) ==
  IF parameter_type = "Position"
  THEN mem[AsUsize(mem[address + 1]) + 1]
  ELSE mem[address + 1]

\* the first index at which set panics, NoFault when it writes
set_fault(mem, address) ==
  IF address >= Len(mem) THEN address
  ELSE IF AsUsize(mem[address + 1]) >= Len(mem)
       THEN AsUsize(mem[address + 1])
       ELSE NoFault

set(mem, address, value) ==
  [mem EXCEPT ![AsUsize(mem[address + 1]) + 1] = value]

---------------------------------------------------------------------------
(* Panic payloads: the message template and the values formatted into it *)

NoPanic == [msg |-> "", args |-> <<>>]
IndexOutOfBounds(len, index) ==
  [msg |-> "index out of bounds: the len is {} but the index is {}",
   args |-> <<len, index>>]
NotEnoughInput == [msg |-> "Not enough input provided", args |-> <<>>]
UnknownOpcode(opcode, address) ==
  [msg |-> "Unknown opcode {} at address {}", args |-> <<opcode, address>>]
AddOverflow == [msg |-> "attempt to add with overflow", args |-> <<>>]
MulOverflow == [msg |-> "attempt to multiply with overflow", args |-> <<>>]

\* the run unwinds: nothing is written, the caller's memory stays as it is
Abort(p) ==
  /\ status' = "panicked"
  /\ panic' = p
  /\ UNCHANGED <<memory, ip, answers, output, program, day_03>>

---------------------------------------------------------------------------
(* The programs and inputs a run is started on *)

\* the memories of the unit tests
TestPrograms ==
  { <<99>>,
    <<1, 0, 0, 0, 99>>,
    <<2, 3, 0, 3, 99>>,
    <<1, 1, 1, 4, 99, 5, 6, 0, 99>>,
    <<3, 0, 99>>,
    <<4, 2, 99>>,
    <<1005, 2, 7, 2, 3, 0, 3, 99>>,
    <<1006, 5, 7, 2, 3, 0, 3, 99>>,
    <<7, 1, 2, 0, 99>>,
    <<7, 2, 2, 0, 99>>,
    <<1108, 2, 2, 0, 99>>,
    <<1108, 2, 3, 0, 99>> }

COMPARE_8 ==
  << 3, 21, 1008, 21, 8, 20, 1005, 20, 22, 107, 8, 21, 20, 1006, 20, 31,
     1106, 0, 36, 98, 0, 0, 1002, 21, 125, 20, 4, 20, 1105, 1, 46, 104, 999,
     1105, 1, 46, 1101, 1000, 1, 20, 4, 20, 1105, 1, 46, 98, 99 >>

\* first cells: every opcode of the match under every combination of modes
ModeDigits == {0, 1}
OpcodeCells ==
  { op + 100 * m1 + 1000 * m2 + 10000 * m3 :
      op \in 1 .. 8, m1 \in ModeDigits, m2 \in ModeDigits, m3 \in ModeDigits }

\* parameter cells: addresses inside and outside memory, values at the edges
\* of the word
Operands == {0, 1, 4, -1, MaxInt, MinInt}
Targets == {0, 5, -1}

Tails == { <<>>, <<4, 0, 99>> }

\* cells that decode to no opcode of the match, and the halt
OtherCells == {0, 9, 98, 100, 199, -1, -99, MinInt, MaxInt, 99, 1099}

Prefixes(s) == { SubSeq(s, 1, k) : k \in 0 .. Len(s) }

GeneratedPrograms ==
  UNION { Prefixes(<<c, a, b>>) \cup { <<c, a, b, t>> \o tail : tail \in Tails } :
            c \in OpcodeCells, a \in Operands, b \in Operands, t \in Targets }
  \cup { <<c>> \o tail : c \in OtherCells, tail \in Tails }

\* two reads followed by an output, and a read into the cell executed next
IoPrograms == { <<3, 5, 3, 6, 4, 5, 99>>, <<3, 2, 0, 0, 99>> }

Programs == TestPrograms \cup GeneratedPrograms \cup IoPrograms

InputValues == {7, -1}
RECURSIVE SeqsUpTo(_, _)
SeqsUpTo(S, n) ==
  IF n = 0 THEN { <<>> }
  ELSE LET shorter == SeqsUpTo(S, n - 1)
       IN  shorter \cup { Append(s, v) : s \in shorter, v \in S }
Inputs == SeqsUpTo(InputValues, MaxInputLen) \cup { <<1>>, <<99>> }

CompareInputs ==
  { <<v>> : v \in ((-CompareRange) .. (8 + CompareRange)) \cup {100, MinInt, MaxInt} }

---------------------------------------------------------------------------
(* interpret: state after the three `let`s, before the first iteration *)

\* the crossed-wires computation is not under way
Day03Idle ==
  /\ phase = "idle"
  /\ wires = <<>>
  /\ circuit = <<>>
  /\ found = <<>>
  /\ closest = 0
  /\ first = 0
  /\ edges = <<>>
  /\ hit = <<>>

Init ==
  /\ \/ program \in Programs /\ answers \in Inputs
     \/ program = COMPARE_8 /\ answers \in CompareInputs
  /\ memory = program
  /\ ip = 0
  /\ cursor = 0
  /\ output = <<>>
  /\ status = "running"
  /\ panic = NoPanic
  /\ Day03Idle

\* faulty fetch: decodes the cell of the memory the run started with
Instr_stale == parse_instruction(program[ip + 1])

\* `parse_instruction(memory[ip])` succeeded and the match selects this arm
Instr == parse_instruction(memory[ip + 1])
Fetch(opcode) ==
  /\ status = "running"
  /\ ip < Len(memory)
  /\ Instr.opcode = opcode

\* `memory[ip]` panics: ip is outside the slice
FetchOutOfBounds ==
  /\ status = "running"
  /\ ip >= Len(memory)
  /\ status' = "panicked"
  /\ panic' = IndexOutOfBounds(Len(memory), ip)
  /\ UNCHANGED <<memory, ip, answers, cursor, output, program, day_03>>

\* the operands of the instruction at ip, as the arms look them up
p1 == lookup(memory, ip + 1, Instr.param1)
p2 == lookup(memory, ip + 2, Instr.param2)
p1_fault == lookup_fault(memory, ip + 1, Instr.param1)
p2_fault == lookup_fault(memory, ip + 2, Instr.param2)

\* the index at which the two lookups of a two-operand arm panic, taken left
\* to right; NoFault when both return
operands_fault == IF p1_fault # NoFault THEN p1_fault ELSE p2_fault

OutOfBounds(index) == Abort(IndexOutOfBounds(Len(memory), index))

\* faulty Store: a target outside memory is found only after the value has
\* been put into the parameter slot
Store_clobbers(address, value, width) ==
  IF address >= Len(memory) THEN OutOfBounds(address)
  ELSE IF AsUsize(memory[address + 1]) >= Len(memory)
  THEN /\ memory' = [memory EXCEPT ![address + 1] = value]
       /\ status' = "panicked"
       /\ panic' = IndexOutOfBounds(Len(memory), AsUsize(memory[address + 1]))
       /\ UNCHANGED <<ip, answers, output, program, day_03>>
  ELSE /\ memory' = set(memory, address, value)
       /\ ip' = ip + width
       /\ UNCHANGED <<answers, output, status, panic, program, day_03>>

\* faulty Store: the instruction pointer is not advanced
Store_stays(address, value, width) ==
  LET f == set_fault(memory, address)
  IN  IF f # NoFault THEN OutOfBounds(f)
      ELSE /\ memory' = set(memory, address, value)
           /\ ip' = ip
           /\ UNCHANGED <<answers, output, status, panic, program, day_03>>

\* faulty Store: a destination parameter whose mode digit is 1 is written in
\* place, into the parameter slot itself
Store_honoursMode(address, value, width) ==
  LET mode == IF address = ip + 3 THEN Instr.param3 ELSE Instr.param1
      f == IF mode = "Immediate"
           THEN IF address >= Len(memory) THEN address ELSE NoFault
           ELSE set_fault(memory, address)
  IN  IF f # NoFault THEN OutOfBounds(f)
      ELSE /\ memory' = IF mode = "Immediate"
                        THEN [memory EXCEPT ![address + 1] = value]
                        ELSE set(memory, address, value)
           /\ ip' = ip + width
           /\ UNCHANGED <<answers, output, status, panic, program, day_03>>

\* `set(memory, address, value); ip += width`
Store(address, value, width) ==
  LET f == set_fault(memory, address)
  IN  IF f # NoFault THEN OutOfBounds(f)
      ELSE /\ memory' = set(memory, address, value)
           /\ ip' = ip + width
           /\ UNCHANGED <<answers, output, status, panic, program, day_03>>

\* `ip = ...` or `ip += 3` of the jump arms
Goto(address) ==
  /\ ip' = address
  /\ UNCHANGED <<memory, answers, output, status, panic, program, day_03>>

\* faulty Add: the operator of the multiply arm
Add_multiplies ==
  /\ Fetch(1)
  /\ UNCHANGED cursor
  /\ IF operands_fault # NoFault THEN OutOfBounds(operands_fault)
     ELSE IF p1 * p2 \in Word THEN Store(ip + 3, p1 * p2, 4)
     ELSE \/ Abort(MulOverflow)
          \/ Store(ip + 3, Wrap(p1 * p2), 4)

\* opcode 1.  An overflowing `+` panics in a build with overflow checks and
\* wraps in a build without them.
Add ==
  /\ Fetch(1)
  /\ UNCHANGED cursor
  /\ IF operands_fault # NoFault THEN OutOfBounds(operands_fault)
     ELSE IF p1 + p2 \in Word THEN Store(ip + 3, p1 + p2, 4)
     ELSE \/ Abort(AddOverflow)
          \/ Store(ip + 3, Wrap(p1 + p2), 4)

\* opcode 2
Multiply ==
  /\ Fetch(2)
  /\ UNCHANGED cursor
  /\ IF operands_fault # NoFault THEN OutOfBounds(operands_fault)
     ELSE IF p1 * p2 \in Word THEN Store(ip + 3, p1 * p2, 4)
     ELSE \/ Abort(MulOverflow)
          \/ Store(ip + 3, Wrap(p1 * p2), 4)

\* faulty ReadInput: reads the front of the input without advancing
ReadInput_peeks ==
  /\ Fetch(3)
  /\ UNCHANGED cursor
  /\ IF cursor >= Len(answers)
     THEN Abort(NotEnoughInput)
     ELSE Store(ip + 1, answers[cursor + 1], 2)

\* faulty ReadInput: an exhausted input reads as 0
ReadInput_defaults ==
  /\ Fetch(3)
  /\ IF cursor >= Len(answers)
     THEN UNCHANGED cursor /\ Store(ip + 1, 0, 2)
     ELSE /\ cursor' = cursor + 1
          /\ Store(ip + 1, answers[cursor + 1], 2)

\* opcode 3: the iterator is advanced before set is called
ReadInput ==
  /\ Fetch(3)
  /\ IF cursor >= Len(answers)
     THEN Abort(NotEnoughInput) /\ UNCHANGED cursor
     ELSE /\ cursor' = cursor + 1
          /\ Store(ip + 1, answers[cursor + 1], 2)

\* faulty Output: the new value is put in front
Output_prepends ==
  /\ Fetch(4)
  /\ UNCHANGED cursor
  /\ IF p1_fault # NoFault THEN OutOfBounds(p1_fault)
     ELSE /\ output' = <<p1>> \o output
          /\ ip' = ip + 2
          /\ UNCHANGED <<memory, answers, status, panic, program, day_03>>

\* opcode 4
Output ==
  /\ Fetch(4)
  /\ UNCHANGED cursor
  /\ IF p1_fault # NoFault THEN OutOfBounds(p1_fault)
     ELSE /\ output' = Append(output, p1)
          /\ ip' = ip + 2
          /\ UNCHANGED <<memory, answers, status, panic, program, day_03>>

\* faulty JumpIfTrue: the test of the jump-if-false arm
JumpIfTrue_inverted ==
  /\ Fetch(5)
  /\ UNCHANGED cursor
  /\ IF p1_fault # NoFault THEN OutOfBounds(p1_fault)
     ELSE IF p1 = 0
     THEN IF p2_fault # NoFault THEN OutOfBounds(p2_fault)
          ELSE Goto(AsUsize(p2))
     ELSE Goto(ip + 3)

\* opcode 5: the second operand is looked up only when the jump is taken
JumpIfTrue ==
  /\ Fetch(5)
  /\ UNCHANGED cursor
  /\ IF p1_fault # NoFault THEN OutOfBounds(p1_fault)
     ELSE IF p1 # 0
     THEN IF p2_fault # NoFault THEN OutOfBounds(p2_fault)
          ELSE Goto(AsUsize(p2))
     ELSE Goto(ip + 3)

\* faulty JumpIfFalse: the test of the jump-if-true arm
JumpIfFalse_inverted ==
  /\ Fetch(6)
  /\ UNCHANGED cursor
  /\ IF p1_fault # NoFault THEN OutOfBounds(p1_fault)
     ELSE IF p1 # 0
     THEN IF p2_fault # NoFault THEN OutOfBounds(p2_fault)
          ELSE Goto(AsUsize(p2))
     ELSE Goto(ip + 3)

\* opcode 6
JumpIfFalse ==
  /\ Fetch(6)
  /\ UNCHANGED cursor
  /\ IF p1_fault # NoFault THEN OutOfBounds(p1_fault)
     ELSE IF p1 = 0
     THEN IF p2_fault # NoFault THEN OutOfBounds(p2_fault)
          ELSE Goto(AsUsize(p2))
     ELSE Goto(ip + 3)

\* faulty LessThan: `<=` for `<`
LessThan_orEqual ==
  /\ Fetch(7)
  /\ UNCHANGED cursor
  /\ IF operands_fault # NoFault THEN OutOfBounds(operands_fault)
     ELSE Store(ip + 3, IF p1 <= p2 THEN 1 ELSE 0, 4)

\* opcode 7
LessThan ==
  /\ Fetch(7)
  /\ UNCHANGED cursor
  /\ IF operands_fault # NoFault THEN OutOfBounds(operands_fault)
     ELSE Store(ip + 3, IF p1 < p2 THEN 1 ELSE 0, 4)

\* opcode 8
Equals ==
  /\ Fetch(8)
  /\ UNCHANGED cursor
  /\ IF operands_fault # NoFault THEN OutOfBounds(operands_fault)
     ELSE Store(ip + 3, IF p1 = p2 THEN 1 ELSE 0, 4)

\* faulty Exit: the commented-out `ip += 1` in place of the return
Exit_continues ==
  /\ Fetch(99)
  /\ ip' = ip + 1
  /\ UNCHANGED <<memory, answers, cursor, output, status, panic, program, day_03>>

\* opcode 99: `return output`
Exit ==
  /\ Fetch(99)
  /\ status' = "halted"
  /\ UNCHANGED <<memory, ip, answers, cursor, output, panic, program, day_03>>

\* faulty `_` arm: an unknown opcode is skipped
Unknown_skips ==
  /\ status = "running"
  /\ ip < Len(memory)
  /\ Instr.opcode \notin {1, 2, 3, 4, 5, 6, 7, 8, 99}
  /\ ip' = ip + 1
  /\ UNCHANGED <<memory, answers, cursor, output, status, panic, program, day_03>>

\* the `_` arm
KnownOpcodes == {1, 2, 3, 4, 5, 6, 7, 8, 99}
Unknown ==
  /\ status = "running"
  /\ ip < Len(memory)
  /\ Instr.opcode \notin KnownOpcodes
  /\ Abort(UnknownOpcode(Instr.opcode, ip))
  /\ UNCHANGED cursor

Next ==
  \/ FetchOutOfBounds
  \/ Add
  \/ Multiply
  \/ ReadInput
  \/ Output
  \/ JumpIfTrue
  \/ JumpIfFalse
  \/ LessThan
  \/ Equals
  \/ Exit
  \/ Unknown

Spec == Init /\ [][Next]_vars

\* one-cell memories holding every value of the word, and the empty memory:
\* the first fetch decodes an arbitrary cell value
DecodeInit ==
  /\ program \in {<<v>> : v \in Word} \cup {<<>>}
  /\ answers = <<>>
  /\ memory = program
  /\ ip = 0
  /\ cursor = 0
  /\ output = <<>>
  /\ status = "running"
  /\ panic = NoPanic
  /\ Day03Idle

DecodeSpec == DecodeInit /\ [][Next]_vars

\* `loop { ... }`: the interpreter keeps executing instructions while it runs
FairSpec == Spec /\ WF_vars(Next)

---------------------------------------------------------------------------
(* day_03_crossed_wires/mod.rs.  Coordinates and distances are i32 and     *)
(* timings u32 in the source; both are scaled down to CoordBits bits.      *)
(* Arithmetic that leaves the type panics in a build with overflow checks  *)
(* and wraps in a build without: `checked` selects the build.              *)

CoordModulus == 2 ^ CoordBits
I32Max == 2 ^ (CoordBits - 1) - 1
I32Min == -(2 ^ (CoordBits - 1))
U32Max == CoordModulus - 1
I32 == I32Min .. I32Max
U32 == 0 .. U32Max

WrapI32(v) == ((v - I32Min) % CoordModulus) + I32Min
WrapU32(v) == v % CoordModulus
Magnitude(v) == IF v < 0 THEN -v ELSE v

\* `(a - b).abs() as u32` without overflow checks
span(a, b) ==
  LET d == WrapI32(a - b)
  IN  IF d = I32Min THEN WrapU32(I32Min) ELSE Magnitude(d)

\* the subtraction or the abs of `(a - b).abs()` leaves i32
span_overflows(a, b) == a - b \notin I32 \/ a - b = I32Min

\* no interpreter runs while the wires are computed
IntcodeIdle ==
  /\ memory = <<>>
  /\ ip = 0
  /\ answers = <<>>
  /\ cursor = 0
  /\ output = <<>>
  /\ status = "idle"
  /\ panic = NoPanic
  /\ program = <<>>

ZERO == [x |-> 0, y |-> 0, timing |-> 0]

\* faulty contains: the bounds are taken in the order given
contains_ordered(x, a, b) == x >= a /\ x <= b

contains(x, a, b) ==
  IF a <= b THEN x >= a /\ x <= b ELSE x >= b /\ x <= a

horizontal(edge) == edge.from.y = edge.to.y

\* Option<Point>, or the panic of an arithmetic overflow
None == [kind |-> "None", x |-> 0, y |-> 0, timing |-> 0]
Some(x, y, timing) == [kind |-> "Some", x |-> x, y |-> y, timing |-> timing]
Overflowed == [kind |-> "Panic", x |-> 0, y |-> 0, timing |-> 0]

\* the timing expression of intersect leaves i32 or u32 at some operation
timing_overflows(self, other) ==
  LET x == other.from.x
      y == self.from.y
  IN  \/ span_overflows(self.from.x, x)
      \/ span_overflows(other.from.y, y)
      \/ self.from.timing + Magnitude(self.from.x - x)
           + other.from.timing + Magnitude(other.from.y - y) > U32Max

\* the branch `if self.horizontal()` of intersect
intersect_horizontal(self, other, checked) ==
  IF /\ contains(self.from.y, other.from.y, other.to.y)
     /\ contains(other.from.x, self.from.x, self.to.x)
  THEN LET x == other.from.x
           y == self.from.y
       IN  IF checked /\ timing_overflows(self, other) THEN Overflowed
           ELSE Some(x, y,
                     WrapU32(self.from.timing + span(self.from.x, x)
                               + other.from.timing + span(other.from.y, y)))
  ELSE None

intersect(self, other, checked) ==
  IF horizontal(self) = horizontal(other) THEN None
  ELSE IF horizontal(self) THEN intersect_horizontal(self, other, checked)
  ELSE intersect_horizontal(other, self, checked)

\* Point::distance
distance_overflows(p) ==
  p.x = I32Min \/ p.y = I32Min \/ Magnitude(p.x) + Magnitude(p.y) > I32Max

distance(p) ==
  WrapI32((IF p.x = I32Min THEN I32Min ELSE Magnitude(p.x))
            + (IF p.y = I32Min THEN I32Min ELSE Magnitude(p.y)))

\* Point::translate
translate_overflows(p, x, y) ==
  \/ p.x + x \notin I32
  \/ p.y + y \notin I32
  \/ span_overflows(x, -y)
  \/ p.timing + Magnitude(x + y) > U32Max

translate(p, x, y) ==
  [ x |-> WrapI32(p.x + x),
    y |-> WrapI32(p.y + y),
    timing |-> WrapU32(p.timing + span(x, -y)) ]

\* A movement is the direction letter and the distance its digits parse to.
Directions == {"R", "L", "U", "D"}
unknown_direction(movement) == movement.dir \notin Directions

\* the offsets layout_edge passes to translate
dx(movement) ==
  IF movement.dir = "R" THEN movement.dist
  ELSE IF movement.dir = "L" THEN WrapI32(-movement.dist) ELSE 0

dy(movement) ==
  IF movement.dir = "U" THEN movement.dist
  ELSE IF movement.dir = "D" THEN WrapI32(-movement.dist) ELSE 0

layout_edge_overflows(from, movement) ==
  \/ movement.dir \in {"L", "D"} /\ movement.dist = I32Min
  \/ translate_overflows(from, dx(movement), dy(movement))

layout_edge(from, movement) ==
  [from |-> from, to |-> translate(from, dx(movement), dy(movement))]

\* Edges as layout_edge builds them, from points at the ends and in the
\* middle of the coordinate and timing ranges, and the edges of
\* test_intersection
EdgeCoords == {I32Min, 0, 2, I32Max}
EdgeTimings == {0, 40, U32Max - 2}
EdgeDists == {0, 2, I32Max}
EdgePoints ==
  {[x |-> x, y |-> y, timing |-> t] :
     x \in EdgeCoords, y \in EdgeCoords, t \in EdgeTimings}
EdgeMoves == {[dir |-> d, dist |-> n] : d \in Directions, n \in EdgeDists}
LaidEdges ==
  {layout_edge(q[1], q[2]) :
     q \in {r \in EdgePoints \X EdgeMoves : ~layout_edge_overflows(r[1], r[2])}}
TestEdges ==
  { layout_edge(ZERO, [dir |-> "R", dist |-> 75]),
    layout_edge([x |-> 0, y |-> 2, timing |-> 2], [dir |-> "R", dist |-> 75]),
    layout_edge(ZERO, [dir |-> "U", dist |-> 75]),
    layout_edge([x |-> 20, y |-> 0, timing |-> 20], [dir |-> "U", dist |-> 75]),
    layout_edge([x |-> 76, y |-> 75, timing |-> 200], [dir |-> "D", dist |-> 75]) }
EdgeInputs == LaidEdges \cup TestEdges

EdgeInit ==
  /\ IntcodeIdle
  /\ phase = "edges"
  /\ edges \in EdgeInputs \X EdgeInputs
  /\ hit = <<>>
  /\ wires = <<>>
  /\ circuit = <<>>
  /\ found = <<>>
  /\ closest = 0
  /\ first = 0

\* `a.intersect(&b)` and `b.intersect(&a)` in one build
Intersect ==
  /\ phase = "edges"
  /\ \E checked \in BOOLEAN :
       hit' = << intersect(edges[1], edges[2], checked),
                 intersect(edges[2], edges[1], checked) >>
  /\ phase' = "intersected"
  /\ UNCHANGED <<intcode, wires, circuit, found, closest, first, edges>>

EdgeNext == Intersect

EdgeSpec == EdgeInit /\ [][EdgeNext]_vars

\* layout_wire: the scan that starts at the origin with timing 0
RECURSIVE layout_from(_, _)
layout_from(wire_end, directions) ==
  IF directions = <<>> THEN <<>>
  ELSE LET edge == layout_edge(wire_end, Head(directions))
       IN  <<edge>> \o layout_from(edge.to, Tail(directions))

layout_wire(directions) == layout_from(ZERO, directions)

\* parse_dir or, with overflow checks, translate panics at some movement
RECURSIVE layout_panics(_, _, _)
layout_panics(wire_end, directions, checked) ==
  IF directions = <<>> THEN FALSE
  ELSE \/ unknown_direction(Head(directions))
       \/ checked /\ layout_edge_overflows(wire_end, Head(directions))
       \/ layout_panics(layout_edge(wire_end, Head(directions)).to,
                        Tail(directions), checked)

\* the results of `edge_b.intersect(&edge_a)` in the order of the flat_map:
\* the edges of b outermost, the edges of a innermost
intersections(c, checked) ==
  LET a == c[1]
      b == c[2]
  IN  [k \in 1 .. Len(a) * Len(b) |->
         intersect(b[((k - 1) \div Len(a)) + 1], a[((k - 1) % Len(a)) + 1],
                   checked)]

IsSome(option) == option.kind = "Some"
IsPanic(option) == option.kind = "Panic"

crossings_panics(c, checked) ==
  \E k \in DOMAIN intersections(c, checked) :
    IsPanic(intersections(c, checked)[k])

\* filter_map keeps the points, skip(1) drops the first of them
crossings(c, checked) ==
  LET some == SelectSeq(intersections(c, checked), IsSome)
      rest == IF some = <<>> THEN <<>> ELSE Tail(some)
  IN  [k \in 1 .. Len(rest) |->
         [x |-> rest[k].x, y |-> rest[k].y, timing |-> rest[k].timing]]

\* the fold with min; `unwrap` panics when there is no crossing
minimum(values) == CHOOSE m \in values : \A n \in values : m <= n

get_closest_crossing_panics(c, checked) ==
  \/ crossings_panics(c, checked)
  \/ crossings(c, checked) = <<>>
  \/ checked /\ \E k \in DOMAIN crossings(c, checked) :
                  distance_overflows(crossings(c, checked)[k])

get_closest_crossing(c, checked) ==
  minimum({distance(crossings(c, checked)[k]) :
             k \in DOMAIN crossings(c, checked)})

get_first_crossing_panics(c, checked) ==
  crossings_panics(c, checked) \/ crossings(c, checked) = <<>>

get_first_crossing(c, checked) ==
  minimum({crossings(c, checked)[k].timing :
             k \in DOMAIN crossings(c, checked)})

\* Wires of up to MaxMoves movements, the circuits of test_simple and
\* test_moderate, a wire with a letter parse_dir rejects and a wire that runs
\* past the largest coordinate
WireDists == {1, 2}
WireMoves == {[dir |-> d, dist |-> n] : d \in Directions, n \in WireDists}
Wires == UNION {[1 .. n -> WireMoves] : n \in 1 .. MaxMoves}

Move(d, n) == [dir |-> d, dist |-> n]

TestSimple ==
  << << Move("R", 75), Move("D", 30), Move("R", 83), Move("U", 83),
        Move("L", 12), Move("D", 49), Move("R", 71), Move("U", 7),
        Move("L", 72) >>,
     << Move("U", 62), Move("R", 66), Move("U", 55), Move("R", 34),
        Move("D", 71), Move("R", 55), Move("D", 58), Move("R", 83) >> >>

TestModerate ==
  << << Move("R", 98), Move("U", 47), Move("R", 26), Move("D", 63),
        Move("R", 33), Move("U", 87), Move("L", 62), Move("D", 20),
        Move("R", 33), Move("U", 53), Move("R", 51) >>,
     << Move("U", 98), Move("R", 91), Move("D", 20), Move("R", 16),
        Move("D", 67), Move("R", 40), Move("U", 7), Move("R", 15),
        Move("U", 6), Move("R", 7) >> >>

FaultyCircuits ==
  { << <<Move("X", 1)>>, <<Move("U", 1)>> >>,
    << <<Move("R", I32Max), Move("R", 1), Move("U", 1)>>,
       <<Move("U", 1)>> >> }

Circuits == (Wires \X Wires) \cup {TestSimple, TestModerate} \cup FaultyCircuits

CircuitInit ==
  /\ IntcodeIdle
  /\ phase = "wires"
  /\ wires \in Circuits
  /\ circuit = <<>>
  /\ found = <<>>
  /\ closest = 0
  /\ first = 0
  /\ edges = <<>>
  /\ hit = <<>>

\* an uncaught panic ends the computation
Panics ==
  /\ phase' = "panicked"
  /\ UNCHANGED <<intcode, wires, circuit, found, closest, first, edges, hit>>

\* `(layout_wire(..), layout_wire(..))`
LayoutCircuit ==
  /\ phase = "wires"
  /\ \E checked \in BOOLEAN :
       IF \/ layout_panics(ZERO, wires[1], checked)
          \/ layout_panics(ZERO, wires[2], checked)
       THEN Panics
       ELSE /\ circuit' = <<layout_wire(wires[1]), layout_wire(wires[2])>>
            /\ phase' = "laid"
            /\ UNCHANGED <<intcode, wires, found, closest, first, edges, hit>>

\* `crossings(&circuit)`
Crossings ==
  /\ phase = "laid"
  /\ \E checked \in BOOLEAN :
       IF crossings_panics(circuit, checked) THEN Panics
       ELSE /\ found' = crossings(circuit, checked)
            /\ phase' = "crossed"
            /\ UNCHANGED <<intcode, wires, circuit, closest, first, edges, hit>>

\* `get_closest_crossing(&circuit)`
GetClosestCrossing ==
  /\ phase = "crossed"
  /\ \E checked \in BOOLEAN :
       IF get_closest_crossing_panics(circuit, checked) THEN Panics
       ELSE /\ closest' = get_closest_crossing(circuit, checked)
            /\ phase' = "closest"
            /\ UNCHANGED <<intcode, wires, circuit, found, first, edges, hit>>

\* `get_first_crossing(&circuit)`
GetFirstCrossing ==
  /\ phase = "closest"
  /\ \E checked \in BOOLEAN :
       IF get_first_crossing_panics(circuit, checked) THEN Panics
       ELSE /\ first' = get_first_crossing(circuit, checked)
            /\ phase' = "done"
            /\ UNCHANGED <<intcode, wires, circuit, found, closest, edges, hit>>

CircuitNext ==
  \/ LayoutCircuit
  \/ Crossings
  \/ GetClosestCrossing
  \/ GetFirstCrossing

CircuitSpec == CircuitInit /\ [][CircuitNext]_vars

---------------------------------------------------------------------------
(* Vocabulary of the properties: the instruction at ip read off the memory *)
(* with signed, unconverted addresses                                      *)

Running == status = "running"
Cells == 0 .. (Len(memory) - 1)
Executing(opcode) == Running /\ ip \in Cells /\ Instr.opcode = opcode
Completes == status' = "running"

\* the content of cell a; a value no cell holds when a is no address
NoCell == MinInt - 1
Cell(a) == IF a \in Cells THEN memory[a + 1] ELSE NoCell

\* p1, p2: parameter i resolved with its own mode
Mode(i) == IF i = 1 THEN Instr.param1 ELSE Instr.param2
Param(i) == IF Mode(i) = "Immediate" THEN Cell(ip + i) ELSE Cell(Cell(ip + i))

\* memory with the cell addressed by the parameter slot ip + i set to v
Written(i, v) ==
  [a \in 1 .. Len(memory) |-> IF a = Cell(ip + i) + 1 THEN v ELSE memory[a]]

IsPrefix(s, t) == Len(s) <= Len(t) /\ SubSeq(t, 1, Len(s)) = s

---------------------------------------------------------------------------
\* C1: the output starts empty and changes only by a completed opcode-4 step,
\* which appends p1 to it, leaves every memory cell and the input cursor as
\* they are and advances ip by 2; so the output of a state is a prefix of the
\* output of every later state, and the vector returned at halt is the p1
\* values of the executed opcode-4 instructions in execution order.
C1_OutputStep ==
  IF Executing(4) /\ Completes
  THEN /\ output' = Append(output, Param(1))
       /\ memory' = memory
       /\ cursor' = cursor
       /\ ip' = ip + 2
  ELSE output' = output

C1_OutputIsEmittedValues ==
  (output = <<>>) /\ [][C1_OutputStep /\ IsPrefix(output, output')]_vars

\* a halted run that emitted two different values and then a third
C1_Witness ==
  /\ status = "halted"
  /\ Len(output) = 3
  /\ output[1] # output[2]

\* C2: a step at a cell decoding to opcode 99 ends the run, keeping memory,
\* input cursor, output and ip; nothing happens after it; and the run of
\* memory [99] ends with output [] and memory [99] whatever the input is.
C2_ExitStep ==
  /\ Executing(99) =>
       /\ status' = "halted"
       /\ memory' = memory
       /\ cursor' = cursor
       /\ output' = output
       /\ ip' = ip
  /\ status' = "halted" => Executing(99)
  /\ status # "halted"

C2_HaltReturnsOutput ==
  /\ [](program = <<99>> /\ ~Running =>
          status = "halted" /\ output = <<>> /\ memory = <<99>>)
  /\ [][C2_ExitStep]_vars

\* a run that halted with output and with input values left over
C2_Witness ==
  /\ status = "halted"
  /\ cursor < Len(answers)
  /\ Len(output) > 0
  /\ memory # program

\* C3: the input cursor moves only in a step of opcode 3 with input left, and
\* then by one; when that step completes it stored the value under the cursor
\* at its write target, changed no other cell and advanced ip by 2; the
\* supplied input never changes.
C3_InputStep ==
  /\ answers' = answers
  /\ cursor' # cursor =>
       /\ Executing(3)
       /\ cursor < Len(answers)
       /\ cursor' = cursor + 1
  /\ Executing(3) /\ Completes =>
       /\ cursor' = cursor + 1
       /\ Cell(ip + 1) \in Cells
       /\ memory' = Written(1, answers[cursor + 1])
       /\ ip' = ip + 2
       /\ output' = output

C3_InputFrontToBack == (cursor = 0) /\ [][C3_InputStep]_vars

\* the second read of a run stored the second input value
C3_Witness ==
  /\ program = <<3, 5, 3, 6, 4, 5, 99>>
  /\ cursor = 2
  /\ memory[7] = answers[2]
  /\ memory[6] = answers[1]
  /\ answers[1] # answers[2]

\* C4: a step raises "Not enough input provided" exactly when it executes
\* opcode 3 with the cursor at the end of the input; the run then stops and
\* memory, cursor and output are as before the step.
C4_ExhaustedStep ==
  /\ (panic' = NotEnoughInput) <=> (Executing(3) /\ cursor >= Len(answers))
  /\ panic' = NotEnoughInput =>
       /\ status' = "panicked"
       /\ memory' = memory
       /\ cursor' = cursor
       /\ output' = output

C4_InputExhausted == [][C4_ExhaustedStep]_vars

\* the input ran out at the second read
C4_Witness ==
  /\ panic = NotEnoughInput
  /\ status = "panicked"
  /\ cursor = 1
  /\ Len(answers) = 1
  /\ memory # program

---------------------------------------------------------------------------
\* C5 as stated: a completed step of opcode 1 (resp. 2) writes the exact sum
\* (resp. product) of p1 and p2 into the cell addressed by the cell at ip+3,
\* changes no other cell, input cursor or output, and advances ip by 4.
Exact(opcode, a, b) == IF opcode = 1 THEN a + b ELSE a * b

C5_ExactStep ==
  \A opcode \in {1, 2} :
    Executing(opcode) /\ Completes =>
      /\ Cell(ip + 3) \in Cells
      /\ memory' = Written(3, Exact(opcode, Param(1), Param(2)))
      /\ ip' = ip + 4
      /\ cursor' = cursor
      /\ output' = output

C5_WritesExactResult == [][C5_ExactStep]_vars

\* C5 amended: the value written is the exact result when that is a machine
\* word and the result wrapped to the word width when it is not; a step that
\* stops on the overflow instead writes nothing.
C5_WordStep ==
  \A opcode \in {1, 2} :
    LET exact == Exact(opcode, Param(1), Param(2))
        dest == Cell(ip + 3)
    IN  /\ Executing(opcode) /\ Completes =>
             /\ dest \in Cells
             /\ memory'[dest + 1] \in Word
             /\ (memory'[dest + 1] - exact) % Modulus = 0
             /\ memory' = Written(3, memory'[dest + 1])
             /\ ip' = ip + 4
             /\ cursor' = cursor
             /\ output' = output
        /\ Executing(opcode) /\ panic' \in {AddOverflow, MulOverflow} =>
             /\ exact \notin Word
             /\ panic' = IF opcode = 1 THEN AddOverflow ELSE MulOverflow
             /\ status' = "panicked"
             /\ memory' = memory

C5_WritesResultInWord == [][C5_WordStep]_vars

\* the multiplication of the unit test
C5_Witness ==
  /\ program = <<2, 3, 0, 3, 99>>
  /\ memory = <<2, 3, 0, 6, 99>>
  /\ ip = 4

\* C6: a completed step of opcode 7 (resp. 8) writes 1 into the cell
\* addressed by the cell at ip+3 when p1 < p2 (resp. p1 = p2) and 0
\* otherwise, changes no other cell, input cursor or output, and advances ip
\* by 4.
Holds(opcode, a, b) == IF opcode = 7 THEN a < b ELSE a = b

C6_CompareStep ==
  \A opcode \in {7, 8} :
    Executing(opcode) /\ Completes =>
      /\ Cell(ip + 3) \in Cells
      /\ memory' = Written(3, IF Holds(opcode, Param(1), Param(2)) THEN 1 ELSE 0)
      /\ memory'[Cell(ip + 3) + 1] \in {0, 1}
      /\ ip' = ip + 4
      /\ cursor' = cursor
      /\ output' = output

C6_CompareWritesFlag == [][C6_CompareStep]_vars

\* a less-than on equal operands wrote 0 over a non-zero cell
C6_Witness ==
  /\ program = <<7, 2, 2, 0, 99>>
  /\ memory = <<0, 2, 2, 0, 99>>
  /\ ip = 4

\* C7 as stated: a completed step of opcode 5 (resp. 6) sets ip to p2 itself
\* when p1 # 0 (resp. p1 = 0) and to ip + 3 otherwise, and changes nothing
\* else.
Taken(opcode) == IF opcode = 5 THEN Param(1) # 0 ELSE Param(1) = 0

C7_VerbatimStep ==
  \A opcode \in {5, 6} :
    Executing(opcode) /\ Completes =>
      /\ ip' = IF Taken(opcode) THEN Param(2) ELSE ip + 3
      /\ memory' = memory
      /\ cursor' = cursor
      /\ output' = output

C7_JumpSetsIpVerbatim == [][C7_VerbatimStep]_vars

\* C7 amended: the new ip is p2 converted to the unsigned address type: p2
\* itself when p2 >= 0, p2 plus the modulus of the word when p2 < 0.  The
\* jump completes whenever its operands can be read, inside memory or not,
\* and a step taken with ip outside memory is the failing fetch.
Unsigned(v) == IF v >= 0 THEN v ELSE v + Modulus

C7_JumpStep ==
  /\ \A opcode \in {5, 6} :
       /\ Executing(opcode) /\ Completes =>
            /\ ip' = IF Taken(opcode) THEN Unsigned(Param(2)) ELSE ip + 3
            /\ memory' = memory
            /\ cursor' = cursor
            /\ output' = output
       /\ ( /\ Executing(opcode)
            /\ Param(1) # NoCell
            /\ Taken(opcode) => Param(2) # NoCell ) => Completes
  /\ Running /\ ip \notin Cells =>
       /\ status' = "panicked"
       /\ panic' = IndexOutOfBounds(Len(memory), ip)
       /\ memory' = memory
       /\ output' = output

C7_JumpSetsIp == [][C7_JumpStep]_vars

\* a jump to a negative target was taken and the next fetch failed
C7_Witness ==
  /\ Len(program) >= 3
  /\ program[1] \in {1105, 1106}
  /\ program[3] = -1
  /\ ip = Modulus - 1
  /\ status = "panicked"
  /\ panic = IndexOutOfBounds(Len(memory), ip)

\* C8: a run of COMPARE_8 on one input value v never fails, moves ip forward
\* at every step until it halts, and halts with the single output 999 when
\* v < 8, 1000 when v = 8 and 1001 when v > 8.
Compare8Result(v) == IF v < 8 THEN 999 ELSE IF v = 8 THEN 1000 ELSE 1001

C8_Compare8 ==
  /\ [](program = COMPARE_8 =>
          /\ Len(answers) = 1
          /\ status # "panicked"
          /\ ip \in Cells
          /\ Running => ENABLED Next
          /\ status = "halted" => output = <<Compare8Result(answers[1])>>)
  /\ [][program = COMPARE_8 => ip' > ip \/ status' = "halted"]_vars

\* the run on the input 8 went through the multiplication
C8_Witness ==
  /\ program = COMPARE_8
  /\ answers = <<8>>
  /\ status = "halted"
  /\ output = <<1000>>

\* C9: a step at a cell that decodes to an opcode outside {1,...,8,99} stops
\* the run with "Unknown opcode", naming that opcode and ip, and changes no
\* memory cell, input cursor or output; a step that changes memory, cursor,
\* output or ip, or halts, is at a cell decoding to an opcode of the set.
Recognized == {1, 2, 3, 4, 5, 6, 7, 8, 99}

C9_UnknownStep ==
  /\ Running /\ ip \in Cells /\ Instr.opcode \notin Recognized =>
       /\ status' = "panicked"
       /\ panic' = UnknownOpcode(Instr.opcode, ip)
       /\ memory' = memory
       /\ cursor' = cursor
       /\ output' = output
  /\ panic'.msg = UnknownOpcode(0, 0).msg =>
       Running /\ ip \in Cells /\ Instr.opcode \notin Recognized
  /\ <<memory, cursor, output, ip>>' # <<memory, cursor, output, ip>>
       \/ status' = "halted" =>
       Running /\ ip \in Cells /\ Instr.opcode \in Recognized

C9_UnknownOpcodeAborts == [][C9_UnknownStep]_vars

\* a cell written by an addition was fetched and found to be no opcode
C9_Witness ==
  /\ status = "panicked"
  /\ panic.msg = UnknownOpcode(0, 0).msg
  /\ ip > 0
  /\ memory # program
  /\ panic.args = <<memory[ip + 1] % 100, ip>>

---------------------------------------------------------------------------
\* C10: the addresses an instruction uses, as signed numbers: the parameter
\* slots ip+i it reads, the pointers held by the slots of its positional
\* operands, and its write target.  A step that completes or halts used
\* only addresses inside memory; a step that needs an address outside
\* memory, negative or beyond the end, stops the run and leaves memory and
\* output as they were, with the index-out-of-bounds condition naming an
\* index outside memory unless the instruction stopped before reaching that
\* access (opcode 3 without input, an overflowing opcode 1 or 2); and the
\* out-of-bounds condition is raised by no other step.
ReadInBounds(i) ==
  /\ ip + i \in Cells
  /\ Mode(i) = "Position" => Cell(ip + i) \in Cells

WriteInBounds(i) == ip + i \in Cells /\ Cell(ip + i) \in Cells

AccessesInBounds ==
  /\ ip \in Cells
  /\ Instr.opcode \in {1, 2, 7, 8} =>
       ReadInBounds(1) /\ ReadInBounds(2) /\ WriteInBounds(3)
  /\ Instr.opcode = 3 => WriteInBounds(1)
  /\ Instr.opcode = 4 => ReadInBounds(1)
  /\ Instr.opcode \in {5, 6} =>
       ReadInBounds(1) /\ (Taken(Instr.opcode) => ReadInBounds(2))

StopsBeforeAccess ==
  \/ Executing(3) /\ cursor >= Len(answers) /\ panic' = NotEnoughInput
  \/ /\ Executing(1) \/ Executing(2)
     /\ ReadInBounds(1) /\ ReadInBounds(2)
     /\ Exact(Instr.opcode, Param(1), Param(2)) \notin Word
     /\ panic' \in {AddOverflow, MulOverflow}

OutOfBoundsMsg == IndexOutOfBounds(0, 0).msg

C10_AccessStep ==
  Running =>
    /\ status' # "panicked" => AccessesInBounds
    /\ ~AccessesInBounds =>
         /\ status' = "panicked"
         /\ memory' = memory
         /\ output' = output
         /\ panic'.msg = OutOfBoundsMsg \/ StopsBeforeAccess
    /\ panic'.msg = OutOfBoundsMsg =>
         /\ ~AccessesInBounds
         /\ panic'.args[1] = Len(memory)
         /\ panic'.args[2] \notin Cells
    /\ Len(memory') = Len(memory)

C10_AccessesInBoundsOrFatal == [][C10_AccessStep]_vars

\* a write through a negative target stopped the run after the operands had
\* been read
C10_Witness ==
  /\ status = "panicked"
  /\ panic.msg = OutOfBoundsMsg
  /\ ip = 0
  /\ Len(memory) >= 4
  /\ Instr.opcode \in {1, 2, 7, 8}
  /\ memory[4] = -1
  /\ panic.args = <<Len(memory), Modulus - 1>>
  /\ memory = program

---------------------------------------------------------------------------
\* C11: a step that raises a fatal condition is taken from a running state
\* and leaves memory, output and ip exactly as the completed instructions
\* before it left them; it records one of the fatal conditions; no step
\* follows it; and a step that raises none records none.
FatalMsgs ==
  { NotEnoughInput.msg, UnknownOpcode(0, 0).msg, IndexOutOfBounds(0, 0).msg,
    AddOverflow.msg, MulOverflow.msg }

C11_FatalStep ==
  /\ status # "panicked"
  /\ status' = "panicked" =>
       /\ Running
       /\ memory' = memory
       /\ output' = output
       /\ ip' = ip
       /\ panic'.msg \in FatalMsgs
  /\ status' # "panicked" => panic' = NoPanic

C11_StopsAtFirstFatal == (panic = NoPanic) /\ [][C11_FatalStep]_vars

\* a run stopped by a write outside memory after an earlier instruction had
\* changed memory
C11_Witness ==
  /\ status = "panicked"
  /\ panic.msg = IndexOutOfBounds(0, 0).msg
  /\ ip > 0
  /\ ip \in Cells
  /\ Instr.opcode \in {1, 2, 3, 7, 8}
  /\ memory # program

\* C12: at every fatal abort the values carried by the panic include the
\* instruction pointer of the failing instruction and, when a cell was
\* fetched there, the opcode it decodes to.
C12_AbortCarriesOpcodeAndIp ==
  status = "panicked" =>
    /\ \E i \in DOMAIN panic.args : panic.args[i] = ip
    /\ ip \in Cells => \E i \in DOMAIN panic.args : panic.args[i] = Instr.opcode

\* C13: a step that executes an opcode other than 5 and 6 either ends the
\* run (halt or fatal condition) or is made at an address inside memory and
\* moves ip strictly forward, by at most 4; so between two jumps at most
\* Len(memory) instructions complete, and a run that never stops executes
\* opcode 5 or 6 again and again: with opcodes 1, 2 and 99 only, it stops.
C13_ForwardStep ==
  Running /\ ~Executing(5) /\ ~Executing(6) =>
    \/ status' \in {"halted", "panicked"}
    \/ /\ Completes
       /\ ip \in Cells
       /\ ip' > ip
       /\ ip' <= ip + 4

C13_Jumps == Executing(5) \/ Executing(6)

C13_TerminatesWithoutJumps ==
  /\ [][C13_ForwardStep]_vars
  /\ <>(~Running) \/ []<>C13_Jumps

\* the add of example [1,0,0,0,99] has completed and the run has halted
C13_Witness ==
  /\ program = <<1, 0, 0, 0, 99>>
  /\ memory = <<2, 0, 0, 0, 99>>
  /\ ip = 4
  /\ status = "halted"

\* C14: the instruction executed at ip is the decoding of the value memory
\* holds at ip now, also when an earlier instruction wrote that value: the
\* step halts exactly when that value decodes to 99, is an unknown-opcode
\* abort exactly when it decodes to no recognized opcode, and when it
\* completes it advances ip by the width of that opcode (jumps aside); and
\* the run of [1,1,1,4,99,5,6,0,99] ends halted with memory
\* [30,1,1,4,2,5,6,0,99].
Width(opcode) ==
  IF opcode \in {1, 2, 7, 8} THEN 4 ELSE IF opcode \in {3, 4} THEN 2 ELSE 3

C14_FetchStep ==
  Running /\ ip \in Cells =>
    LET current == parse_instruction(memory[ip + 1]).opcode
    IN  /\ status' = "halted" <=> current = 99
        /\ current \notin Recognized <=>
             status' = "panicked" /\ panic'.msg = UnknownOpcode(0, 0).msg
        /\ Completes /\ current \in {1, 2, 3, 4, 7, 8} =>
             ip' = ip + Width(current)

C14_Combination == <<1, 1, 1, 4, 99, 5, 6, 0, 99>>

C14_FetchDecodesCurrentMemory ==
  /\ [](program = C14_Combination /\ ~Running =>
          status = "halted" /\ memory = <<30, 1, 1, 4, 2, 5, 6, 0, 99>>)
  /\ [][C14_FetchStep]_vars

\* the multiply written into cell 4 by the add has been executed
C14_Witness ==
  /\ program = C14_Combination
  /\ status = "halted"
  /\ ip = 8
  /\ memory[5] = 2
  /\ memory[1] = 30

\* C15: the instruction decoded from the cell value v at ip has
\* opcode = v mod 100 and, for parameter i in 1..3, the mode of the digit
\* floor(v / 10^(i+1)) mod 10: immediate when the digit is 1, positional
\* otherwise.
Pow10(k) == IF k = 2 THEN 100 ELSE IF k = 3 THEN 1000 ELSE 10000
Digit(v, i) == (v \div Pow10(i + 1)) % 10
ModeOfDigit(d) == IF d = 1 THEN "Immediate" ELSE "Position"

C15_DecodesByFloorMod ==
  Running /\ ip \in Cells =>
    LET v == memory[ip + 1]
    IN  /\ Instr.opcode = v % 100
        /\ Instr.param1 = ModeOfDigit(Digit(v, 1))
        /\ Instr.param2 = ModeOfDigit(Digit(v, 2))
        /\ Instr.param3 = ModeOfDigit(Digit(v, 3))

\* C15 (amended): the decoding of a cell value v >= 0 is as stated above;
\* that of a value v < 0 has every mode positional and the opcode
\* (256 - (|v| mod 100)) mod 256, which is 0 or lies in 157..255 and is no
\* recognized opcode; the decoder itself raises no fatal condition, a fetched
\* cell aborts the run only as an unknown opcode, with the decoded opcode.
C15_DecodeStep ==
  Running /\ ip \in Cells /\ Instr.opcode \notin Recognized =>
    status' = "panicked" /\ panic' = UnknownOpcode(Instr.opcode, ip)

C15_DecodesCell ==
  Running /\ ip \in Cells =>
    LET v == memory[ip + 1]
    IN  IF v >= 0
        THEN /\ Instr.opcode = v % 100
             /\ Instr.param1 = ModeOfDigit(Digit(v, 1))
             /\ Instr.param2 = ModeOfDigit(Digit(v, 2))
             /\ Instr.param3 = ModeOfDigit(Digit(v, 3))
        ELSE /\ Instr.opcode = (256 - ((-v) % 100)) % 256
             /\ Instr.opcode \notin Recognized
             /\ Instr.param1 = "Position"
             /\ Instr.param2 = "Position"
             /\ Instr.param3 = "Position"

C15_Decodes == []C15_DecodesCell /\ [][C15_DecodeStep]_vars

\* the cell value -1 has been decoded to opcode 255 and rejected
C15_Witness ==
  /\ program = <<-1>>
  /\ status = "panicked"
  /\ panic = UnknownOpcode(255, 0)

\* C16: on the memory of every reachable state and every address a inside
\* it, lookup in immediate mode returns memory[a] and raises no fault, and
\* in positional mode, when memory[a] is itself an address inside memory,
\* returns memory[memory[a]] and raises no fault; and the steps that only
\* look up (opcodes 4, 5 and 6) leave memory as it is.
C16_LookupReads ==
  \A a \in Cells :
    /\ lookup(memory, a, "Immediate") = memory[a + 1]
    /\ lookup_fault(memory, a, "Immediate") = NoFault
    /\ memory[a + 1] \in Cells =>
         /\ lookup(memory, a, "Position") = memory[memory[a + 1] + 1]
         /\ lookup_fault(memory, a, "Position") = NoFault

C16_LookupStep ==
  Executing(4) \/ Executing(5) \/ Executing(6) => memory' = memory

C16_LookupByMode == []C16_LookupReads /\ [][C16_LookupStep]_vars

\* a positional and an immediate lookup have been made by output steps, the
\* positional one through a pointer that differs from the value it addresses
C16_Witness ==
  /\ program = <<4, 2, 99>>
  /\ output = <<99>>
  /\ memory = program
  /\ status = "halted"

\* C17: a completed step of opcode 1, 2, 7 or 8 writes the cell addressed by
\* memory[ip+3], and one of opcode 3 the cell addressed by memory[ip+1]: that
\* address is inside memory, every other cell (the parameter slot included,
\* unless it addresses itself) keeps its value, and the value written and
\* the new ip are those given by the opcode, the two operands and the input,
\* whatever the mode digit of the destination parameter is.
Slot(opcode) == IF opcode = 3 THEN ip + 1 ELSE ip + 3

Flag(b) == IF b THEN 1 ELSE 0

ValueWritten(opcode) ==
  IF opcode = 1 THEN Wrap(Param(1) + Param(2))
  ELSE IF opcode = 2 THEN Wrap(Param(1) * Param(2))
  ELSE IF opcode = 7 THEN Flag(Param(1) < Param(2))
  ELSE IF opcode = 8 THEN Flag(Param(1) = Param(2))
  ELSE answers[cursor + 1]

C17_WriteStep ==
  \A opcode \in {1, 2, 3, 7, 8} :
    Executing(opcode) /\ Completes =>
      LET target == Cell(Slot(opcode))
      IN  /\ target \in Cells
          /\ memory' = [memory EXCEPT ![target + 1] = ValueWritten(opcode)]
          /\ ip' = ip + Width(opcode)

C18_MemoryShape ==
  /\ Len(memory) = Len(program)
  /\ \A a \in Cells : memory[a + 1] \in Word

\* an add of the largest word value and 1 has completed
C18_Witness ==
  /\ Len(program) >= 4
  /\ program[1] = 1101
  /\ program[2] = MaxInt
  /\ program[3] = 1
  /\ ip = 4
  /\ status = "running"
  /\ \E a \in Cells : memory[a + 1] = MinInt /\ program[a + 1] # MinInt

---------------------------------------------------------------------------
\* C19: once two edges a and b have been intersected in both directions, the
\* two results are equal; they are None when a and b have the same
\* orientation; for a horizontal h and a vertical v among them they are a
\* point exactly when v.from.x lies between h.from.x and h.to.x and h.from.y
\* between v.from.y and v.to.y (bounds included, in either order), and the
\* point is (v.from.x, h.from.y) with timing
\* h.from.timing + |h.from.x - x| + v.from.timing + |v.from.y - y|.
Within(x, a, b) == (a <= x /\ x <= b) \/ (b <= x /\ x <= a)

HorizontalOf(a, b) == IF horizontal(a) THEN a ELSE b
VerticalOf(a, b) == IF horizontal(a) THEN b ELSE a

Cross(h, v) ==
  /\ Within(v.from.x, h.from.x, h.to.x)
  /\ Within(h.from.y, v.from.y, v.to.y)

ExactTiming(h, v) ==
  h.from.timing + Magnitude(h.from.x - v.from.x)
    + v.from.timing + Magnitude(v.from.y - h.from.y)

C19_IntersectExact ==
  phase = "intersected" =>
    LET a == edges[1]
        b == edges[2]
        h == HorizontalOf(a, b)
        v == VerticalOf(a, b)
    IN  /\ hit[1] = hit[2]
        /\ horizontal(a) = horizontal(b) => hit[1] = None
        /\ horizontal(a) # horizontal(b) =>
             hit[1] = IF Cross(h, v)
                      THEN Some(v.from.x, h.from.y, ExactTiming(h, v))
                      ELSE None

\* C19 (amended): as above when both differences fit i32 and the timing fits
\* u32; when they do not, the two calls panic (overflow checks) or return the
\* point with the timing computed in wrapping arithmetic.
TimingFits(h, v) ==
  /\ Magnitude(h.from.x - v.from.x) <= I32Max
  /\ Magnitude(v.from.y - h.from.y) <= I32Max
  /\ ExactTiming(h, v) <= U32Max

WrappedTiming(h, v) ==
  WrapU32(h.from.timing + span(h.from.x, v.from.x)
            + v.from.timing + span(v.from.y, h.from.y))

C19_Intersect ==
  phase = "intersected" =>
    LET a == edges[1]
        b == edges[2]
        h == HorizontalOf(a, b)
        v == VerticalOf(a, b)
    IN  /\ hit[1] = hit[2]
        /\ horizontal(a) = horizontal(b) => hit[1] = None
        /\ horizontal(a) # horizontal(b) /\ ~Cross(h, v) => hit[1] = None
        /\ horizontal(a) # horizontal(b) /\ Cross(h, v) =>
             IF TimingFits(h, v)
             THEN hit[1] = Some(v.from.x, h.from.y, ExactTiming(h, v))
             ELSE \/ hit[1] = Overflowed
                  \/ hit[1] = Some(v.from.x, h.from.y, WrappedTiming(h, v))

\* a vertical edge laid downwards has been intersected with a horizontal
\* edge laid leftwards, and they cross away from both starts
C19_Witness ==
  /\ phase = "intersected"
  /\ ~horizontal(edges[1])
  /\ edges[1].from.y > edges[1].to.y
  /\ edges[2].from.x > edges[2].to.x
  /\ hit[1].kind = "Some"
  /\ hit[1].timing = edges[1].from.timing + edges[2].from.timing + 4
  /\ hit[2] = hit[1]

\* C20: the points crossings returns are exactly the points at which an
\* edge of one wire intersects an edge of the other, the origin left out, and
\* the results of get_closest_crossing and get_first_crossing are the least
\* distance and the least timing over those points, which are found whenever
\* there is such a point (stated for wires whose layout stays inside the
\* coordinate and timing types).
Origin(p) == p.x = 0 /\ p.y = 0

RealCrossings ==
  {[x |-> o.x, y |-> o.y, timing |-> o.timing] :
     o \in {q \in {intersect(eb, ea, FALSE) :
                     ea \in {circuit[1][i] : i \in DOMAIN circuit[1]},
                     eb \in {circuit[2][j] : j \in DOMAIN circuit[2]}} :
              IsSome(q) /\ ~Origin(q)}}

LaidWithinTypes ==
  ~layout_panics(ZERO, wires[1], TRUE) /\ ~layout_panics(ZERO, wires[2], TRUE)

C20_CrossingsAreRealCrossings ==
  /\ phase = "panicked" /\ LaidWithinTypes => RealCrossings = {}
  /\ phase \in {"crossed", "closest", "done"} /\ LaidWithinTypes =>
       {found[k] : k \in DOMAIN found} = RealCrossings
  /\ phase \in {"closest", "done"} =>
       closest = minimum({Magnitude(p.x) + Magnitude(p.y) : p \in RealCrossings})
  /\ phase = "done" =>
       first = minimum({p.timing : p \in RealCrossings})

====
